---- MODULE Spec2Model ----
(***************************************************************************)
(* Model of dataframes-haystack: the converters that read tabular files    *)
(* into a table and project table rows into haystack Documents.            *)
(*                                                                         *)
(* A Python value is a record [ty, repr]: its type and its str() form.     *)
(* A dict is a function whose domain is its key set.  A table is a record  *)
(* [columns, rows, index]: column names in order, one dict per row, and    *)
(* the pandas row index (polars tables carry the default one, unused).     *)
(***************************************************************************)
EXTENDS Integers, Sequences, FiniteSets, TLC

\* ------------------------------------------------------------------------
\* Bounds of the model
\* ------------------------------------------------------------------------
MaxRows == 2
MaxMetaCols == 2
MaxFiles == 2
MaxMetaLen == 3
MaxRuns == 2

\* ------------------------------------------------------------------------
\* Python values, str(), dicts
\* ------------------------------------------------------------------------
VStr(s) == [ty |-> "str", repr |-> s]
VInt(s) == [ty |-> "int", repr |-> s]
VNone == [ty |-> "NoneType", repr |-> "None"]
VNaN == [ty |-> "float", repr |-> "nan"]

\* decimal form of the small integers the model uses
Digits == <<"0", "1", "2", "3", "4", "5", "6", "7", "8", "9">>
IntRepr(n) == IF n < 10 THEN Digits[n + 1] ELSE "many"

\* str(v): always a str, spelled as the value prints
PyStr(v) == [ty |-> "str", repr |-> v.repr]

\* None as a column-name argument (index_column=None, columns_subset=None)
None == "<None>"

\* bool(s) of an optional string: None and "" are falsy
Truthy(s) == s /= None /\ s /= ""

EmptyDict == [k \in {} |-> VNone]

\* {**b, **a}: the left operand wins
DictMergeLeftWins(a, b) ==
    [k \in (DOMAIN a) \cup (DOMAIN b) |-> IF k \in DOMAIN a THEN a[k] ELSE b[k]]

\* {**a, **b}
DictMerge(a, b) ==
    [k \in (DOMAIN a) \cup (DOMAIN b) |-> IF k \in DOMAIN b THEN b[k] ELSE a[k]]

\* the dict left after d.pop(key)
DictRemove(d, key) == [k \in (DOMAIN d) \ {key} |-> d[k]]

SeqRange(s) == {s[i] : i \in 1..Len(s)}

\* ------------------------------------------------------------------------
\* Outcomes of a call: a returned value or a raised exception
\* ------------------------------------------------------------------------
NoTable == [columns |-> << >>, rows |-> << >>, index |-> [kind |-> "range", labels |-> << >>]]

Returned(docs) == [status |-> "ok", documents |-> docs, dataframe |-> NoTable, error |-> ""]
ReturnedFrame(t) == [status |-> "ok", documents |-> << >>, dataframe |-> t, error |-> ""]
Raised(e) == [status |-> "error", documents |-> << >>, dataframe |-> NoTable, error |-> e]
NoResult == [status |-> "none", documents |-> << >>, dataframe |-> NoTable, error |-> ""]

MetadataLengthMismatch == "ValueError: The length of the metadata list must match the number of sources."
KeyError == "KeyError"
ColumnNotFound == "polars.ColumnNotFoundError"
DuplicateError == "polars.DuplicateError"
IncompatibleIndex == "ValueError: The index of the DataFrame cannot be used as the ID of the Documents."
NothingToConcat == "ValueError: nothing to concatenate"
SchemaMismatch == "polars.ShapeError"

\* ------------------------------------------------------------------------
\* Extra metadata argument: None, one dict, or a list of dicts
\* ------------------------------------------------------------------------
MetaNone == [kind |-> "none", d |-> EmptyDict, l |-> << >>]
MetaDict(d) == [kind |-> "dict", d |-> d, l |-> << >>]
MetaList(l) == [kind |-> "list", d |-> EmptyDict, l |-> l]

\* haystack.components.converters.utils.normalize_metadata
normalize_metadata(meta, sources_count) ==
    IF meta.kind = "none" THEN [ok |-> TRUE, list |-> [i \in 1..sources_count |-> EmptyDict]]
    ELSE IF meta.kind = "dict" THEN [ok |-> TRUE, list |-> [i \in 1..sources_count |-> meta.d]]
    ELSE IF sources_count /= Len(meta.l) THEN [ok |-> FALSE, list |-> << >>]
    ELSE [ok |-> TRUE, list |-> meta.l]

\* ------------------------------------------------------------------------
\* frame_to_documents (_utils.py)
\* ------------------------------------------------------------------------
Document(id, content, meta) == [id |-> id, content |-> content, meta |-> meta]

\* doc_id = row.pop(index_column): the value as it is in the table
FrameDocIdRaw(row, index_column) ==
    IF Truthy(index_column) THEN row[index_column] ELSE VNone

\* doc_id = str(row.pop(index_column)) if index_column else None
FrameDocId(row, index_column) ==
    IF Truthy(index_column) THEN PyStr(row[index_column]) ELSE VNone

\* doc_id = str(row[index_column]): the id is read but not removed
FrameIdKept(row, index_column) == row

\* the row after the pop of the id column
FrameAfterId(row, index_column) ==
    IF Truthy(index_column) THEN DictRemove(row, index_column) ELSE row

\* content = row[content_column]: the content is read but not removed
FrameContentKept(row, content_column) == row

\* the row after content = row.pop(content_column)
FrameAfterContent(row, content_column) == DictRemove(row, content_column)

\* meta_row = {k: v for k, v in row.items() if k in meta_columns} if meta_columns else {}
FrameMetaRow(row, meta_columns) ==
    IF Len(meta_columns) > 0
    THEN [k \in {c \in DOMAIN row : c \in SeqRange(meta_columns)} |-> row[k]]
    ELSE EmptyDict

\* metadata = {**meta_row, **meta_list[i]} if meta_list else meta_row
FrameMetadata(meta_row, meta_list, i) ==
    IF Len(meta_list) > 0 THEN DictMerge(meta_row, meta_list[i]) ELSE meta_row

NoDocument == [id |-> VNone, content |-> VNone, meta |-> EmptyDict]

\* one pass of the loop body for row i: the Document, or a KeyError of a pop
FrameRow(row, i, content_column, meta_columns, index_column, meta_list) ==
    IF Truthy(index_column) /\ index_column \notin DOMAIN row
    THEN [ok |-> FALSE, doc |-> NoDocument]
    ELSE
    LET doc_id == FrameDocId(row, index_column)
        row1 == FrameAfterId(row, index_column)
    IN  IF content_column \notin DOMAIN row1
        THEN [ok |-> FALSE, doc |-> NoDocument]
        ELSE
        LET content == row1[content_column]
            row2 == FrameAfterContent(row1, content_column)
            meta_row == FrameMetaRow(row2, meta_columns)
            metadata == FrameMetadata(meta_row, meta_list, i)
        IN  [ok |-> TRUE, doc |-> Document(doc_id, content, metadata)]

RECURSIVE FrameLoop(_, _, _, _, _, _, _)
FrameLoop(rows, i, documents, content_column, meta_columns, index_column, meta_list) ==
    IF i > Len(rows) THEN Returned(documents)
    ELSE LET r == FrameRow(rows[i], i, content_column, meta_columns, index_column, meta_list)
         IN  IF ~r.ok THEN Raised(KeyError)
             ELSE FrameLoop(rows, i + 1, Append(documents, r.doc),
                            content_column, meta_columns, index_column, meta_list)

\* a projection that zips the rows with whatever list it is given, padding
\* a short list with empty metadata and ignoring the tail of a long one
frame_to_documents_zipped(df, content_column, meta_columns, index_column, extra_metadata) ==
    LET fitted == IF extra_metadata.kind = "list"
                  THEN MetaList([i \in 1..Len(df.rows) |->
                                   IF i <= Len(extra_metadata.l) THEN extra_metadata.l[i] ELSE EmptyDict])
                  ELSE extra_metadata
        meta_list == normalize_metadata(fitted, Len(df.rows))
    IN  FrameLoop(df.rows, 1, << >>, content_column, meta_columns, index_column, meta_list.list)

frame_to_documents(df, content_column, meta_columns, index_column, extra_metadata) ==
    LET meta_list == normalize_metadata(extra_metadata, Len(df.rows))
    IN  IF ~meta_list.ok THEN Raised(MetadataLengthMismatch)
        ELSE FrameLoop(df.rows, 1, << >>, content_column, meta_columns, index_column, meta_list.list)

\* ------------------------------------------------------------------------
\* Identity of the dict objects: which dict a Document holds as its meta
\* ------------------------------------------------------------------------
\* a dict object: one the caller passed (the single mapping is number 0,
\* entry i of a list is number i), the one {} that normalize_metadata makes
\* for None, or one made in pass i of the loop
CallerObject(n) == [kind |-> "caller", n |-> n]
NormalizeObject == [kind |-> "normalize", n |-> 0]
LoopObject(i) == [kind |-> "loop", n |-> i]

\* the objects in the list normalize_metadata returns: [{}] * n repeats one
\* new dict, [meta] * n repeats the caller's dict, a list is returned as it is
normalize_metadata_objects(meta, sources_count) ==
    IF meta.kind = "none" THEN [i \in 1..sources_count |-> NormalizeObject]
    ELSE IF meta.kind = "dict" THEN [i \in 1..sources_count |-> CallerObject(0)]
    ELSE [i \in 1..Len(meta.l) |-> CallerObject(i)]

\* metadata = meta_list[i], updated in place with meta_row
MetadataObjectInPlace(meta_list_objects, i) ==
    IF Len(meta_list_objects) > 0 THEN meta_list_objects[i] ELSE LoopObject(i)

\* metadata = {**meta_row, **meta_list[i]} if meta_list else meta_row: the
\* merge is a new dict, and so is the meta_row of each pass
MetadataObject(meta_list_objects, i) == LoopObject(i)

\* the meta objects of the Documents of an outcome
MetadataObjects(meta, outcome) ==
    IF outcome.status = "ok"
    THEN [i \in 1..Len(outcome.documents) |->
            MetadataObject(normalize_metadata_objects(meta, Len(outcome.documents)), i)]
    ELSE << >>

\* ------------------------------------------------------------------------
\* Table engines: the operations of polars and pandas the converters call
\* ------------------------------------------------------------------------
IsInjective(s) == \A i, j \in 1..Len(s) : s[i] = s[j] => i = j

\* the output column name of one argument of polars select: a str names a
\* column, None becomes the literal null column polars calls "literal"
PolarsOutputName(e) == IF e = None THEN "literal" ELSE e

\* polars DataFrame.select(exprs)
PolarsSelect(df, exprs) ==
    LET names == [i \in 1..Len(exprs) |-> PolarsOutputName(exprs[i])]
    IN  IF \E i \in 1..Len(exprs) : exprs[i] /= None /\ exprs[i] \notin SeqRange(df.columns)
        THEN [ok |-> FALSE, error |-> ColumnNotFound, df |-> NoTable]
        ELSE IF ~IsInjective(names)
        THEN [ok |-> FALSE, error |-> DuplicateError, df |-> NoTable]
        ELSE [ok |-> TRUE, error |-> "",
              df |-> [columns |-> names,
                      rows |-> [r \in 1..Len(df.rows) |->
                                  [k \in SeqRange(names) |->
                                      IF \E i \in 1..Len(exprs) : exprs[i] = k
                                      THEN df.rows[r][k] ELSE VNone]],
                      index |-> df.index]]

\* pandas dataframe[columns]: a repeated name repeats the column
PandasGetColumns(df, columns) ==
    IF \E i \in 1..Len(columns) : columns[i] \notin SeqRange(df.columns)
    THEN [ok |-> FALSE, error |-> KeyError, df |-> NoTable]
    ELSE [ok |-> TRUE, error |-> "",
          df |-> [columns |-> columns,
                  rows |-> [r \in 1..Len(df.rows) |-> [k \in SeqRange(columns) |-> df.rows[r][k]]],
                  index |-> df.index]]

\* a concatenation that puts later tables first
RECURSIVE ConcatRowsReversed(_)
ConcatRowsReversed(df_list) ==
    IF df_list = << >> THEN << >>
    ELSE ConcatRowsReversed(Tail(df_list)) \o Head(df_list).rows

\* the rows of the tables, table after table
RECURSIVE ConcatRows(_)
ConcatRows(df_list) ==
    IF df_list = << >> THEN << >>
    ELSE Head(df_list).rows \o ConcatRows(Tail(df_list))

RangeLabels(n) == [i \in 1..n |-> VInt(IntRepr(i - 1))]

\* polars / narwhals concat(df_list, how="vertical")
VerticalConcat(df_list) ==
    IF df_list = << >> THEN [ok |-> FALSE, error |-> NothingToConcat, df |-> NoTable]
    ELSE IF \E i \in 1..Len(df_list) : df_list[i].columns /= df_list[1].columns
    THEN [ok |-> FALSE, error |-> SchemaMismatch, df |-> NoTable]
    ELSE LET rows == ConcatRows(df_list)
         IN  [ok |-> TRUE, error |-> "",
              df |-> [columns |-> df_list[1].columns, rows |-> rows,
                      index |-> [kind |-> "range", labels |-> RangeLabels(Len(rows))]]]

\* pandas concat(df_list, ignore_index=True): the columns are the union in
\* order of first appearance, a missing cell is NaN, the index is 0..N-1
RECURSIVE UnionColumns(_, _)
UnionColumns(df_list, acc) ==
    IF df_list = << >> THEN acc
    ELSE UnionColumns(Tail(df_list),
                      acc \o SelectSeq(Head(df_list).columns, LAMBDA c : c \notin SeqRange(acc)))

PandasConcatIgnoreIndex(df_list) ==
    IF df_list = << >> THEN [ok |-> FALSE, error |-> NothingToConcat, df |-> NoTable]
    ELSE LET columns == UnionColumns(df_list, << >>)
             rows == ConcatRows(df_list)
         IN  [ok |-> TRUE, error |-> "",
              df |-> [columns |-> columns,
                      rows |-> [r \in 1..Len(rows) |->
                                  [k \in SeqRange(columns) |->
                                      IF k \in DOMAIN rows[r] THEN rows[r][k] ELSE VNaN]],
                      index |-> [kind |-> "range", labels |-> RangeLabels(Len(rows))]]]

\* an optional list argument: None, or a list
NoList == [some |-> FALSE, val |-> << >>]
SomeList(l) == [some |-> TRUE, val |-> l]

\* ------------------------------------------------------------------------
\* PandasDataFrameConverter (pandas.py)
\* ------------------------------------------------------------------------
NoInstance ==
    [cls |-> "None", content_column |-> None, meta_columns |-> << >>, index_column |-> None,
     use_index_as_id |-> FALSE, file_format |-> "", backend |-> "", columns_subset |-> NoList,
     constructed |-> FALSE]

PandasDataFrameConverter_init(content_column, meta_columns, use_index_as_id) ==
    [NoInstance EXCEPT !.cls = "PandasDataFrameConverter", !.content_column = content_column,
                       !.meta_columns = meta_columns, !.use_index_as_id = use_index_as_id,
                       !.constructed = TRUE]

\* an index check that accepts every index
_is_compatible_index_any(self, dataframe) == TRUE

_is_compatible_index(self, dataframe) ==
    IF self.use_index_as_id
    THEN (IF dataframe.index.kind = "multi" THEN FALSE ELSE TRUE)
    ELSE TRUE

index_col_name == "index"

PandasRow(self, row, i, meta_list) ==
    LET doc_id == IF self.use_index_as_id THEN row[index_col_name] ELSE VNone
        row1 == IF self.use_index_as_id THEN DictRemove(row, index_col_name) ELSE row
    IN  IF self.content_column \notin DOMAIN row1
        THEN [ok |-> FALSE, doc |-> NoDocument]
        ELSE
        LET content == row1[self.content_column]
            row2 == DictRemove(row1, self.content_column)
            meta_row == IF Len(self.meta_columns) > 0
                        THEN [k \in {c \in DOMAIN row2 : c \in SeqRange(self.meta_columns)} |-> row2[k]]
                        ELSE EmptyDict
            metadata == IF Len(meta_list) > 0 THEN DictMerge(meta_row, meta_list[i]) ELSE meta_row
        IN  [ok |-> TRUE, doc |-> Document(doc_id, content, metadata)]

RECURSIVE PandasLoop(_, _, _, _, _)
PandasLoop(self, data_rows, i, documents, meta_list) ==
    IF i > Len(data_rows) THEN Returned(documents)
    ELSE LET r == PandasRow(self, data_rows[i], i, meta_list)
         IN  IF ~r.ok THEN Raised(KeyError)
             ELSE PandasLoop(self, data_rows, i + 1, Append(documents, r.doc), meta_list)

PandasDataFrameConverter_run(self, dataframe, meta) ==
    IF ~_is_compatible_index(self, dataframe) THEN Raised(IncompatibleIndex)
    ELSE
    LET meta_list == normalize_metadata(meta, Len(dataframe.rows))
    IN  IF ~meta_list.ok THEN Raised(MetadataLengthMismatch)
        ELSE
        LET selected_columns == <<self.content_column>> \o self.meta_columns
            selected == PandasGetColumns(dataframe, selected_columns)
        IN  IF ~selected.ok THEN Raised(selected.error)
            ELSE
            LET records == selected.df.rows
                indexes == dataframe.index.labels
                data_rows == IF self.use_index_as_id
                             THEN [i \in 1..Len(records) |->
                                     DictMerge([k \in {index_col_name} |-> PyStr(indexes[i])], records[i])]
                             ELSE records
            IN  PandasLoop(self, data_rows, 1, << >>, meta_list.list)

\* a run that keeps the columns it selected in place of meta_columns
PandasDataFrameConverter_after_run_keeps_selection(self, dataframe, meta) ==
    [self EXCEPT !.meta_columns = <<self.content_column>> \o self.meta_columns]

\* the instance after run: selected_columns is a new list and run assigns no
\* attribute, so the instance is as it was
PandasDataFrameConverter_after_run(self, dataframe, meta) == self

\* ------------------------------------------------------------------------
\* PolarsDataFrameConverter (polars.py)
\* ------------------------------------------------------------------------
PolarsDataFrameConverter_init(content_column, meta_columns, index_column) ==
    [NoInstance EXCEPT !.cls = "PolarsDataFrameConverter", !.content_column = content_column,
                       !.meta_columns = meta_columns, !.index_column = index_column,
                       !.constructed = TRUE]

PolarsRow(self, row, i, meta_list) ==
    LET has_id == Truthy(self.index_column)
    IN  IF has_id /\ self.index_column \notin DOMAIN row
        THEN [ok |-> FALSE, doc |-> NoDocument]
        ELSE
        LET doc_id == IF has_id THEN PyStr(row[self.index_column]) ELSE VNone
            row1 == IF has_id THEN DictRemove(row, self.index_column) ELSE row
        IN  IF self.content_column \notin DOMAIN row1
            THEN [ok |-> FALSE, doc |-> NoDocument]
            ELSE
            LET content == row1[self.content_column]
                row2 == DictRemove(row1, self.content_column)
                meta_row == IF Len(self.meta_columns) > 0
                            THEN [k \in {c \in DOMAIN row2 : c \in SeqRange(self.meta_columns)} |-> row2[k]]
                            ELSE EmptyDict
                metadata == IF Len(meta_list) > 0 THEN DictMerge(meta_row, meta_list[i]) ELSE meta_row
            IN  [ok |-> TRUE, doc |-> Document(doc_id, content, metadata)]

RECURSIVE PolarsLoop(_, _, _, _, _)
PolarsLoop(self, data_rows, i, documents, meta_list) ==
    IF i > Len(data_rows) THEN Returned(documents)
    ELSE LET r == PolarsRow(self, data_rows[i], i, meta_list)
         IN  IF ~r.ok THEN Raised(KeyError)
             ELSE PolarsLoop(self, data_rows, i + 1, Append(documents, r.doc), meta_list)

PolarsDataFrameConverter_run(self, dataframe, meta) ==
    LET meta_list == normalize_metadata(meta, Len(dataframe.rows))
    IN  IF ~meta_list.ok THEN Raised(MetadataLengthMismatch)
        ELSE
        LET selected_columns == <<self.index_column, self.content_column>> \o self.meta_columns
            selected == PolarsSelect(dataframe, selected_columns)
        IN  IF ~selected.ok THEN Raised(selected.error)
            ELSE PolarsLoop(self, selected.df.rows, 1, << >>, meta_list.list)

\* the instance after run: run assigns no attribute
PolarsDataFrameConverter_after_run(self, dataframe, meta) == self

\* ------------------------------------------------------------------------
\* Files on disk and the reader functions
\* ------------------------------------------------------------------------
ContentValues == <<"content1", "content2", "content3", "content4", "content5">>
Meta1Values == <<"meta1_1", "meta1_2", "meta1_3", "meta1_4", "meta1_5">>
LiteralValues == <<"lit_1", "lit_2", "lit_3", "lit_4", "lit_5">>

\* the k-th row of test data over every column name of the model; the
\* "index" column holds integers that differ from the row positions
DataRow(k) ==
    [c \in {"content", "meta1", "index", "literal"} |->
        CASE c = "content" -> VStr(ContentValues[k])
          [] c = "meta1" -> VStr(Meta1Values[k])
          [] c = "index" -> VInt(IntRepr(k + 4))
          [] OTHER -> VStr(LiteralValues[k])]

\* rows first..last of the test data under the given columns
DataTable(columns, first, last, index) ==
    [columns |-> columns,
     rows |-> [r \in 1..(last - first + 1) |-> [c \in SeqRange(columns) |-> DataRow(first + r - 1)[c]]],
     index |-> index]

FilePaths == {"a.csv", "b.csv", "c.csv"}

Files ==
    [p \in FilePaths |->
        CASE p = "a.csv" -> DataTable(<<"content", "meta1", "index">>, 1, 2, [kind |-> "range", labels |-> RangeLabels(2)])
          [] p = "b.csv" -> DataTable(<<"content", "meta1", "index">>, 3, 4, [kind |-> "range", labels |-> RangeLabels(2)])
          [] OTHER -> DataTable(<<"content", "literal">>, 5, 5, [kind |-> "range", labels |-> RangeLabels(1)])]

\* a reader function of a table engine, e.g. polars.read_csv
ReaderFunc(backend, file_format) == [backend |-> backend, file_format |-> file_format]
CallReader(reader_function, file_path) == Files[file_path]

PolarsFormats == {"avro", "csv", "delta", "excel", "ipc", "json", "parquet"}
PandasFormats == {"csv", "fwf", "json", "html", "xml", "excel", "feather", "parquet", "orc", "pickle", "sql", "gbq"}

\* ------------------------------------------------------------------------
\* DataFrameFileToDocument (_common.py)
\* ------------------------------------------------------------------------
\* read_with_select: columns_subset is a list here, falsy when empty
read_with_select(reader_function, file_path, columns_subset) ==
    LET df == CallReader(reader_function, file_path)
    IN  IF Len(columns_subset) > 0 THEN PolarsSelect(df, columns_subset)
        ELSE [ok |-> TRUE, error |-> "", df |-> df]

Constructed(instance) == [ok |-> TRUE, self |-> instance, error |-> ""]
ConstructionFailed(e) == [ok |-> FALSE, self |-> NoInstance, error |-> e]

_get_reader_function_polars(file_format) ==
    IF file_format \in PolarsFormats
    THEN [ok |-> TRUE, reader |-> ReaderFunc("polars", file_format), error |-> ""]
    ELSE [ok |-> FALSE, reader |-> ReaderFunc("", ""),
          error |-> "ValueError: Unsupported file format in polars: " \o file_format]

_get_reader_function_pandas(file_format) ==
    [ok |-> FALSE, reader |-> ReaderFunc("", ""),
     error |-> "NotImplementedError: Pandas reader function not implemented yet"]

\* neither branch taken: the method returns None
_get_reader_function(backend, file_format) ==
    IF backend = "pandas" THEN _get_reader_function_pandas(file_format)
    ELSE IF backend = "polars" THEN _get_reader_function_polars(file_format)
    ELSE [ok |-> TRUE, reader |-> ReaderFunc("None", "None"), error |-> ""]

\* the constructor without its check of the backend
DataFrameFileToDocument_init_AnyBackend(content_column, meta_columns, index_column, file_format, backend) ==
    LET reader == _get_reader_function(backend, file_format)
    IN  IF ~reader.ok THEN ConstructionFailed(reader.error)
        ELSE Constructed([NoInstance EXCEPT !.cls = "DataFrameFileToDocument",
                                            !.content_column = content_column,
                                            !.meta_columns = meta_columns,
                                            !.index_column = index_column,
                                            !.file_format = file_format,
                                            !.backend = backend,
                                            !.constructed = TRUE])

DataFrameFileToDocument_init(content_column, meta_columns, index_column, file_format, backend) ==
    IF backend \notin {"pandas", "polars"}
    THEN ConstructionFailed("ValueError: Unsupported backend: " \o backend)
    ELSE LET reader == _get_reader_function(backend, file_format)
         IN  IF ~reader.ok THEN ConstructionFailed(reader.error)
             ELSE Constructed([NoInstance EXCEPT !.cls = "DataFrameFileToDocument",
                                                 !.content_column = content_column,
                                                 !.meta_columns = meta_columns,
                                                 !.index_column = index_column,
                                                 !.file_format = file_format,
                                                 !.backend = backend,
                                                 !.constructed = TRUE])

RECURSIVE ReadAll(_, _, _, _)
ReadAll(self, file_paths, selected_columns, df_list) ==
    IF file_paths = << >> THEN [ok |-> TRUE, error |-> "", list |-> df_list]
    ELSE LET r == read_with_select(ReaderFunc(self.backend, self.file_format), Head(file_paths), selected_columns)
         IN  IF ~r.ok THEN [ok |-> FALSE, error |-> r.error, list |-> << >>]
             ELSE ReadAll(self, Tail(file_paths), selected_columns, Append(df_list, r.df))

_run_read(self, file_paths) ==
    LET selected_columns == <<self.index_column, self.content_column>> \o self.meta_columns
        df_list == ReadAll(self, file_paths, selected_columns, << >>)
    IN  IF ~df_list.ok THEN [ok |-> FALSE, error |-> df_list.error, df |-> NoTable]
        ELSE VerticalConcat(df_list.list)

FileRow(self, row, i, meta_list) ==
    LET has_id == Truthy(self.index_column)
    IN  IF has_id /\ self.index_column \notin DOMAIN row
        THEN [ok |-> FALSE, doc |-> NoDocument]
        ELSE
        LET doc_id == IF has_id THEN PyStr(row[self.index_column]) ELSE VNone
            row1 == IF has_id THEN DictRemove(row, self.index_column) ELSE row
        IN  IF self.content_column \notin DOMAIN row1
            THEN [ok |-> FALSE, doc |-> NoDocument]
            ELSE
            LET content == row1[self.content_column]
                row2 == DictRemove(row1, self.content_column)
                meta_row == IF Len(self.meta_columns) > 0
                            THEN [k \in {c \in DOMAIN row2 : c \in SeqRange(self.meta_columns)} |-> row2[k]]
                            ELSE EmptyDict
                metadata == IF Len(meta_list) > 0 THEN DictMerge(meta_row, meta_list[i]) ELSE meta_row
            IN  [ok |-> TRUE, doc |-> Document(doc_id, content, metadata)]

RECURSIVE FileLoop(_, _, _, _, _)
FileLoop(self, rows, i, documents, meta_list) ==
    IF i > Len(rows) THEN Returned(documents)
    ELSE LET r == FileRow(self, rows[i], i, meta_list)
         IN  IF ~r.ok THEN Raised(KeyError)
             ELSE FileLoop(self, rows, i + 1, Append(documents, r.doc), meta_list)

\* a run that checks a list of extra metadata against the number of files
\* and gives the rows past the end of the list its last entry
DataFrameFileToDocument_run_per_file(self, file_paths, meta) ==
    LET read == _run_read(self, file_paths)
    IN  IF ~read.ok THEN Raised(read.error)
        ELSE
        LET count == IF meta.kind = "list" THEN Len(file_paths) ELSE Len(read.df.rows)
            meta_list == normalize_metadata(meta, count)
        IN  IF ~meta_list.ok THEN Raised(MetadataLengthMismatch)
            ELSE FileLoop(self, read.df.rows, 1, << >>,
                          [i \in 1..Len(read.df.rows) |->
                              meta_list.list[IF i <= count THEN i ELSE count]])

DataFrameFileToDocument_run(self, file_paths, meta) ==
    LET read == _run_read(self, file_paths)
    IN  IF ~read.ok THEN Raised(read.error)
        ELSE
        LET meta_list == normalize_metadata(meta, Len(read.df.rows))
        IN  IF ~meta_list.ok THEN Raised(MetadataLengthMismatch)
            ELSE FileLoop(self, read.df.rows, 1, << >>, meta_list.list)

\* the instance after run: run and _run_read assign no attribute
DataFrameFileToDocument_after_run(self, file_paths, meta) == self

\* ------------------------------------------------------------------------
\* FileToPandasDataFrame (pandas.py) and FileToPolarsConverter (polars.py)
\* ------------------------------------------------------------------------
FileToPandasDataFrame_init(file_format, columns_subset) ==
    IF file_format \in PandasFormats
    THEN Constructed([NoInstance EXCEPT !.cls = "FileToPandasDataFrame", !.file_format = file_format,
                                        !.backend = "pandas", !.columns_subset = columns_subset,
                                        !.constructed = TRUE])
    ELSE ConstructionFailed("ValueError: Unsupported file format: " \o file_format)

FileToPandasDataFrame_read_with_select(self, file_path) ==
    LET df == CallReader(ReaderFunc("pandas", self.file_format), file_path)
    IN  IF self.columns_subset.some /\ Len(self.columns_subset.val) > 0
        THEN PandasGetColumns(df, self.columns_subset.val)
        ELSE [ok |-> TRUE, error |-> "", df |-> df]

RECURSIVE PandasReadAll(_, _, _)
PandasReadAll(self, file_paths, df_list) ==
    IF file_paths = << >> THEN [ok |-> TRUE, error |-> "", list |-> df_list]
    ELSE LET r == FileToPandasDataFrame_read_with_select(self, Head(file_paths))
         IN  IF ~r.ok THEN [ok |-> FALSE, error |-> r.error, list |-> << >>]
             ELSE PandasReadAll(self, Tail(file_paths), Append(df_list, r.df))

FileToPandasDataFrame_run(self, file_paths) ==
    LET df_list == PandasReadAll(self, file_paths, << >>)
    IN  IF ~df_list.ok THEN Raised(df_list.error)
        ELSE LET df == PandasConcatIgnoreIndex(df_list.list)
             IN  IF ~df.ok THEN Raised(df.error) ELSE ReturnedFrame(df.df)

\* the instance after run: run assigns no attribute
FileToPandasDataFrame_after_run(self, file_paths) == self

FileToPolarsConverter_init(file_format, columns_subset) ==
    IF file_format \in PolarsFormats
    THEN Constructed([NoInstance EXCEPT !.cls = "FileToPolarsConverter", !.file_format = file_format,
                                        !.backend = "polars", !.columns_subset = columns_subset,
                                        !.constructed = TRUE])
    ELSE ConstructionFailed("ValueError: Unsupported file format: " \o file_format)

\* a read that keeps every column whatever columns_subset is
FileToPolarsConverter_read_all_columns(self, file) ==
    [ok |-> TRUE, error |-> "", df |-> CallReader(ReaderFunc("polars", self.file_format), file)]

FileToPolarsConverter_read_with_select(self, file) ==
    LET df == CallReader(ReaderFunc("polars", self.file_format), file)
    IN  IF self.columns_subset.some /\ Len(self.columns_subset.val) > 0
        THEN PolarsSelect(df, self.columns_subset.val)
        ELSE [ok |-> TRUE, error |-> "", df |-> df]

RECURSIVE PolarsReadAll(_, _, _)
PolarsReadAll(self, files, df_list) ==
    IF files = << >> THEN [ok |-> TRUE, error |-> "", list |-> df_list]
    ELSE LET r == FileToPolarsConverter_read_with_select(self, Head(files))
         IN  IF ~r.ok THEN [ok |-> FALSE, error |-> r.error, list |-> << >>]
             ELSE PolarsReadAll(self, Tail(files), Append(df_list, r.df))

FileToPolarsConverter_run(self, files) ==
    LET df_list == PolarsReadAll(self, files, << >>)
    IN  IF ~df_list.ok THEN Raised(df_list.error)
        ELSE LET df == VerticalConcat(df_list.list)
             IN  IF ~df.ok THEN Raised(df.error) ELSE ReturnedFrame(df.df)

\* the instance after run: run assigns no attribute
FileToPolarsConverter_after_run(self, files) == self

\* ------------------------------------------------------------------------
\* Inputs of the calls
\* ------------------------------------------------------------------------
SeqsUpTo(S, n) == UNION {[1..m -> S] : m \in 0..n}

ContentChoices == {"content", "index", "literal"}
IndexChoices == {None, "index", "content"}
MetaNames == {"meta1", "content", "index"}
MetaColumnChoices == SeqsUpTo(MetaNames, MaxMetaCols)
FormatChoices == {"csv", "avro", "fwf", "sql", "foo"}
BackendChoices == {"pandas", "polars", "foo"}
SubsetChoices == {NoList, SomeList(<< >>), SomeList(<<"content">>), SomeList(<<"meta1", "content">>),
                  SomeList(<<"content", "index">>)}

ColumnLists == {<<"content", "meta1", "index">>, <<"content", "meta1", "literal">>}

LabelValues == <<"a", "b", "c", "d">>
TupleValues == <<"('a', 0)", "('b', 1)", "('c', 2)", "('d', 3)">>
RowIndex(kind, n) ==
    [kind |-> kind,
     labels |-> CASE kind = "range" -> RangeLabels(n)
                  [] kind = "labels" -> [i \in 1..n |-> VStr(LabelValues[i])]
                  [] OTHER -> [i \in 1..n |-> [ty |-> "tuple", repr |-> TupleValues[i]]]]

PolarsTables == {DataTable(cols, 1, n, RowIndex("range", n)) : cols \in ColumnLists, n \in 0..MaxRows}
PandasTables ==
    UNION {{DataTable(cols, 1, n, RowIndex(kind, n)) : cols \in ColumnLists, n \in 0..MaxRows}
             : kind \in {"range", "labels", "multi"}}

OverrideDict == [k \in {"meta1", "content", "index", "literal"} |-> VStr("override")]
ExtraDict == [k \in {"extra"} |-> VStr("metadata")]
EntryValues == <<"extra1", "extra2", "extra3", "extra4", "extra5">>
\* the extra metadata of row i in a list argument: its keys collide with a
\* metadata column on odd rows and with the content column on even rows
Entry(i) ==
    [k \in (IF i % 2 = 1 THEN {"extra", "meta1"} ELSE {"extra", "content", "literal"}) |->
        VStr(EntryValues[i])]
MetaChoices ==
    {MetaNone} \cup {MetaDict(d) : d \in {EmptyDict, ExtraDict, OverrideDict}}
               \cup {MetaList([i \in 1..n |-> Entry(i)]) : n \in 0..MaxMetaLen}

PathChoices == SeqsUpTo(FilePaths, MaxFiles)

\* the inputs of the runs after the first on an instance
LaterTables == {DataTable(cols, 1, MaxRows, RowIndex("range", MaxRows)) : cols \in ColumnLists}
LaterMetaChoices == {MetaNone, MetaDict(ExtraDict), MetaList([i \in 1..MaxRows |-> Entry(i)])}
LaterPathChoices == {<<"a.csv">>, <<"c.csv">>, <<"b.csv", "a.csv">>}

NoArgs ==
    [dataframe |-> NoTable, meta |-> MetaNone, file_paths |-> << >>,
     content_column |-> None, meta_columns |-> << >>, index_column |-> None,
     use_index_as_id |-> FALSE, file_format |-> "", backend |-> "", columns_subset |-> NoList]

\* ------------------------------------------------------------------------
\* State: the stage instance, the last operation, the arguments of the
\* constructor and of the last run, and the outcome of the last call
\* ------------------------------------------------------------------------
\* runs counts the run calls made on the instance; meta_objects names the
\* dict object each returned Document holds as its meta
VARIABLES self, op, args, result, runs, meta_objects
vars == <<self, op, args, result, runs, meta_objects>>

Init ==
    /\ self = NoInstance
    /\ op = "start"
    /\ args = NoArgs
    /\ result = NoResult
    /\ runs = 0
    /\ meta_objects = << >>

CallFrameToDocuments ==
    /\ op = "start"
    /\ \E df \in PolarsTables \cup PandasTables, content_column \in ContentChoices,
          meta_columns \in MetaColumnChoices, index_column \in IndexChoices, extra_metadata \in MetaChoices :
          /\ df.index.kind = "range"
          /\ args' = [NoArgs EXCEPT !.dataframe = df, !.content_column = content_column,
                                    !.meta_columns = meta_columns, !.index_column = index_column,
                                    !.meta = extra_metadata]
          /\ result' = frame_to_documents(df, content_column, meta_columns, index_column, extra_metadata)
          /\ meta_objects' = MetadataObjects(extra_metadata, result')
    /\ op' = "frame_to_documents"
    /\ UNCHANGED <<self, runs>>

NewPandasDataFrameConverter ==
    /\ op = "start"
    /\ \E content_column \in ContentChoices, meta_columns \in MetaColumnChoices, use_index_as_id \in BOOLEAN :
          /\ args' = [NoArgs EXCEPT !.content_column = content_column, !.meta_columns = meta_columns,
                                    !.use_index_as_id = use_index_as_id]
          /\ self' = PandasDataFrameConverter_init(content_column, meta_columns, use_index_as_id)
    /\ op' = "PandasDataFrameConverter.__init__"
    /\ runs' = 0
    /\ meta_objects' = << >>
    /\ result' = NoResult

\* A pipeline connects the "dataframe" output of FileToPandasDataFrame to the
\* "dataframe" input of a PandasDataFrameConverter: the converter is built
\* while the reading stage's table is still the pending output.
NewChainedPandasDataFrameConverter ==
    /\ op = "FileToPandasDataFrame.run"
    /\ result.status = "ok"
    /\ \E content_column \in ContentChoices, meta_columns \in MetaColumnChoices, use_index_as_id \in BOOLEAN :
          /\ args' = [NoArgs EXCEPT !.content_column = content_column, !.meta_columns = meta_columns,
                                    !.use_index_as_id = use_index_as_id,
                                    !.file_paths = args.file_paths]
          /\ self' = PandasDataFrameConverter_init(content_column, meta_columns, use_index_as_id)
    /\ op' = "PandasDataFrameConverter.__init__"
    /\ runs' = 0
    /\ meta_objects' = << >>
    /\ UNCHANGED result

\* The converter's first run in a pipeline receives the reading stage's table.
Chained == op = "PandasDataFrameConverter.__init__" /\ result.status = "ok"

RunPandasDataFrameConverter ==
    /\ self.cls = "PandasDataFrameConverter"
    /\ runs < MaxRuns
    /\ \E dataframe \in (IF Chained THEN {result.dataframe}
                          ELSE IF runs = 0 THEN PandasTables ELSE LaterTables),
          meta \in (IF runs = 0 THEN MetaChoices ELSE LaterMetaChoices) :
          /\ args' = [args EXCEPT !.dataframe = dataframe, !.meta = meta,
                                  !.file_paths = IF Chained THEN args.file_paths ELSE << >>]
          /\ result' = PandasDataFrameConverter_run(self, dataframe, meta)
          /\ meta_objects' = MetadataObjects(meta, result')
          /\ self' = PandasDataFrameConverter_after_run(self, dataframe, meta)
    /\ op' = "PandasDataFrameConverter.run"
    /\ runs' = runs + 1

NewPolarsDataFrameConverter ==
    /\ op = "start"
    /\ \E content_column \in ContentChoices, meta_columns \in MetaColumnChoices, index_column \in IndexChoices :
          /\ args' = [NoArgs EXCEPT !.content_column = content_column, !.meta_columns = meta_columns,
                                    !.index_column = index_column]
          /\ self' = PolarsDataFrameConverter_init(content_column, meta_columns, index_column)
    /\ op' = "PolarsDataFrameConverter.__init__"
    /\ runs' = 0
    /\ meta_objects' = << >>
    /\ result' = NoResult

RunPolarsDataFrameConverter ==
    /\ self.cls = "PolarsDataFrameConverter"
    /\ runs < MaxRuns
    /\ \E dataframe \in (IF runs = 0 THEN PolarsTables ELSE LaterTables),
          meta \in (IF runs = 0 THEN MetaChoices ELSE LaterMetaChoices) :
          /\ args' = [args EXCEPT !.dataframe = dataframe, !.meta = meta]
          /\ result' = PolarsDataFrameConverter_run(self, dataframe, meta)
          /\ meta_objects' = MetadataObjects(meta, result')
          /\ self' = PolarsDataFrameConverter_after_run(self, dataframe, meta)
    /\ op' = "PolarsDataFrameConverter.run"
    /\ runs' = runs + 1

NewDataFrameFileToDocument ==
    /\ op = "start"
    /\ \E content_column \in ContentChoices, meta_columns \in MetaColumnChoices, index_column \in IndexChoices,
          file_format \in FormatChoices, backend \in BackendChoices :
          LET new == DataFrameFileToDocument_init(content_column, meta_columns, index_column, file_format, backend)
          IN  /\ args' = [NoArgs EXCEPT !.content_column = content_column, !.meta_columns = meta_columns,
                                        !.index_column = index_column, !.file_format = file_format,
                                        !.backend = backend]
              /\ self' = new.self
              /\ result' = IF new.ok THEN NoResult ELSE Raised(new.error)
    /\ op' = "DataFrameFileToDocument.__init__"
    /\ runs' = 0
    /\ meta_objects' = << >>

RunDataFrameFileToDocument ==
    /\ self.cls = "DataFrameFileToDocument"
    /\ runs < MaxRuns
    /\ \E file_paths \in (IF runs = 0 THEN PathChoices ELSE LaterPathChoices),
          meta \in (IF runs = 0 THEN MetaChoices ELSE LaterMetaChoices) :
          /\ args' = [args EXCEPT !.file_paths = file_paths, !.meta = meta]
          /\ result' = DataFrameFileToDocument_run(self, file_paths, meta)
          /\ meta_objects' = MetadataObjects(meta, result')
          /\ self' = DataFrameFileToDocument_after_run(self, file_paths, meta)
    /\ op' = "DataFrameFileToDocument.run"
    /\ runs' = runs + 1

NewFileToPandasDataFrame ==
    /\ op = "start"
    /\ \E file_format \in FormatChoices, columns_subset \in SubsetChoices :
          LET new == FileToPandasDataFrame_init(file_format, columns_subset)
          IN  /\ args' = [NoArgs EXCEPT !.file_format = file_format, !.columns_subset = columns_subset]
              /\ self' = new.self
              /\ result' = IF new.ok THEN NoResult ELSE Raised(new.error)
    /\ op' = "FileToPandasDataFrame.__init__"
    /\ runs' = 0
    /\ meta_objects' = << >>

RunFileToPandasDataFrame ==
    /\ self.cls = "FileToPandasDataFrame"
    /\ runs < MaxRuns
    /\ \E file_paths \in (IF runs = 0 THEN PathChoices ELSE LaterPathChoices) :
          /\ args' = [args EXCEPT !.file_paths = file_paths]
          /\ result' = FileToPandasDataFrame_run(self, file_paths)
          /\ meta_objects' = << >>
          /\ self' = FileToPandasDataFrame_after_run(self, file_paths)
    /\ op' = "FileToPandasDataFrame.run"
    /\ runs' = runs + 1

NewFileToPolarsConverter ==
    /\ op = "start"
    /\ \E file_format \in FormatChoices, columns_subset \in SubsetChoices :
          LET new == FileToPolarsConverter_init(file_format, columns_subset)
          IN  /\ args' = [NoArgs EXCEPT !.file_format = file_format, !.columns_subset = columns_subset]
              /\ self' = new.self
              /\ result' = IF new.ok THEN NoResult ELSE Raised(new.error)
    /\ op' = "FileToPolarsConverter.__init__"
    /\ runs' = 0
    /\ meta_objects' = << >>

RunFileToPolarsConverter ==
    /\ self.cls = "FileToPolarsConverter"
    /\ runs < MaxRuns
    /\ \E files \in (IF runs = 0 THEN PathChoices ELSE LaterPathChoices) :
          /\ args' = [args EXCEPT !.file_paths = files]
          /\ result' = FileToPolarsConverter_run(self, files)
          /\ meta_objects' = << >>
          /\ self' = FileToPolarsConverter_after_run(self, files)
    /\ op' = "FileToPolarsConverter.run"
    /\ runs' = runs + 1

Next ==
    \/ CallFrameToDocuments
    \/ NewPandasDataFrameConverter
    \/ NewChainedPandasDataFrameConverter
    \/ RunPandasDataFrameConverter
    \/ NewPolarsDataFrameConverter
    \/ RunPolarsDataFrameConverter
    \/ NewDataFrameFileToDocument
    \/ RunDataFrameFileToDocument
    \/ NewFileToPandasDataFrame
    \/ RunFileToPandasDataFrame
    \/ NewFileToPolarsConverter
    \/ RunFileToPolarsConverter

Spec == Init /\ [][Next]_vars

\* ------------------------------------------------------------------------
\* Properties
\* ------------------------------------------------------------------------
ProjectionOps ==
    {"frame_to_documents", "PandasDataFrameConverter.run", "PolarsDataFrameConverter.run",
     "DataFrameFileToDocument.run"}
ReaderOps == {"FileToPandasDataFrame.run", "FileToPolarsConverter.run"}
FileOps == ReaderOps \cup {"DataFrameFileToDocument.run"}

IsProjection == op \in ProjectionOps
ReturnedOk == result.status = "ok"

\* the configuration the projection ran with
Config == IF op = "frame_to_documents" THEN args ELSE self
IdConfigured == Config.index_column /= None
ConfiguredColumns ==
    {Config.content_column} \cup SeqRange(Config.meta_columns)
        \cup (IF IdConfigured THEN {Config.index_column} ELSE {})

\* rows of the files before the k-th listed file
RECURSIVE RowsBefore(_, _)
RowsBefore(paths, k) ==
    IF k <= 1 THEN 0 ELSE RowsBefore(paths, k - 1) + Len(Files[paths[k - 1]].rows)
TotalRows(paths) == RowsBefore(paths, Len(paths) + 1)

\* the input table of the call, row by row: the table argument, or the
\* listed files in order and the rows of each file in order
InputRowCount == IF op \in FileOps THEN TotalRows(args.file_paths) ELSE Len(args.dataframe.rows)
InputRow(i) ==
    IF op \in FileOps
    THEN LET k == CHOOSE f \in 1..Len(args.file_paths) :
                      RowsBefore(args.file_paths, f) < i /\ i <= RowsBefore(args.file_paths, f + 1)
         IN  Files[args.file_paths[k]].rows[i - RowsBefore(args.file_paths, k)]
    ELSE args.dataframe.rows[i]
InputHasColumns(cols) ==
    IF op \in FileOps
    THEN /\ Len(args.file_paths) > 0
         /\ \A f \in 1..Len(args.file_paths) : cols \subseteq SeqRange(Files[args.file_paths[f]].columns)
    ELSE cols \subseteq SeqRange(args.dataframe.columns)

\* the extra metadata the caller gave for row i
ExtraFor(i) ==
    CASE args.meta.kind = "none" -> EmptyDict
      [] args.meta.kind = "dict" -> args.meta.d
      [] OTHER -> args.meta.l[i]
ExtraFits == args.meta.kind = "list" => Len(args.meta.l) = InputRowCount

\* the failures the design intends: index_column naming the content column
\* (the id is popped first, C24) and a composite index asked for as the id (C9)
FailsByDesign ==
    \/ IdConfigured /\ Config.index_column = Config.content_column
    \/ op = "PandasDataFrameConverter.run" /\ self.use_index_as_id /\ args.dataframe.index.kind = "multi"

\* C1: Row-count preservation.  A projection over a table that has every
\* configured column, with extra metadata absent, a single mapping or a list
\* of row-count length, returns exactly row-count Documents.  (Stated for
\* the calls the design means to succeed.)
C1_RowCountPreserved ==
    (IsProjection /\ InputHasColumns(ConfiguredColumns) /\ ExtraFits /\ ~FailsByDesign)
        => (ReturnedOk /\ Len(result.documents) = InputRowCount)

\* C2: Order preservation.  The i-th output Document is built from the i-th
\* input row; the rows of a multi-file read are ordered by file as listed and
\* then by row within each file.
C2_OrderPreserved ==
    /\ (IsProjection /\ ReturnedOk) =>
          /\ Len(result.documents) = InputRowCount
          /\ \A i \in 1..Len(result.documents) :
                result.documents[i].content = InputRow(i)[Config.content_column]
    /\ (op \in ReaderOps /\ ReturnedOk) =>
          /\ Len(result.dataframe.rows) = InputRowCount
          /\ \A i \in 1..Len(result.dataframe.rows) :
                \A c \in DOMAIN InputRow(i) :
                    c \in DOMAIN result.dataframe.rows[i] => result.dataframe.rows[i][c] = InputRow(i)[c]

C2_Witness ==
    /\ op = "DataFrameFileToDocument.run"
    /\ ReturnedOk
    /\ args.file_paths = <<"a.csv", "b.csv">>
    /\ Len(result.documents) = 4
    /\ result.documents[3].content = Files["b.csv"].rows[1]["content"]

\* C3 as stated: content_column is never a key of the metadata of an output
\* Document, whatever meta_columns and the extra metadata contain.
C3_ContentNeverInMetadata ==
    (IsProjection /\ ReturnedOk) =>
        \A i \in 1..Len(result.documents) :
            Config.content_column \notin DOMAIN result.documents[i].meta

\* C3 amended: content_column is never a row-derived metadata key, also when
\* meta_columns lists it; it is a metadata key of Document i only when the
\* extra metadata of row i has that key, and it then holds the extra value.
C3_ContentOnlyFromExtra ==
    (IsProjection /\ ReturnedOk) =>
        \A i \in 1..Len(result.documents) :
            Config.content_column \in DOMAIN result.documents[i].meta =>
                /\ Config.content_column \in DOMAIN ExtraFor(i)
                /\ result.documents[i].meta[Config.content_column] = ExtraFor(i)[Config.content_column]

C3_Witness ==
    /\ IsProjection
    /\ ReturnedOk
    /\ Len(result.documents) > 0
    /\ Config.content_column \in SeqRange(Config.meta_columns)
    /\ Config.content_column \notin DOMAIN ExtraFor(1)
    /\ Config.content_column \notin DOMAIN result.documents[1].meta

\* C4: Metadata merge precedence.  A key that is both a metadata column and a
\* key of the row's extra metadata holds the extra-metadata value.
C4_ExtraWins ==
    (IsProjection /\ ReturnedOk) =>
        \A i \in 1..Len(result.documents) :
            \A k \in SeqRange(Config.meta_columns) \cap DOMAIN ExtraFor(i) :
                /\ k \in DOMAIN result.documents[i].meta
                /\ result.documents[i].meta[k] = ExtraFor(i)[k]

C4_Witness ==
    /\ IsProjection
    /\ ReturnedOk
    /\ \E i \in 1..Len(result.documents) :
          \E k \in SeqRange(Config.meta_columns) \cap DOMAIN ExtraFor(i) :
              /\ k \in DOMAIN InputRow(i)
              /\ k /= Config.content_column
              /\ k /= Config.index_column
              /\ InputRow(i)[k] /= ExtraFor(i)[k]
              /\ result.documents[i].meta[k] = ExtraFor(i)[k]

\* the metadata the row itself supplies: the metadata columns the table has,
\* other than the column consumed as content and the one consumed as id
RowDerived(i) ==
    [k \in (SeqRange(Config.meta_columns) \cap DOMAIN InputRow(i))
              \ ({Config.content_column} \cup (IF IdConfigured THEN {Config.index_column} ELSE {})) |->
        InputRow(i)[k]]
Overlaid(base, extra) ==
    [k \in (DOMAIN base) \cup (DOMAIN extra) |-> IF k \in DOMAIN extra THEN extra[k] ELSE base[k]]

\* C5: Broadcast vs per-row extra metadata.  The metadata of Document i is
\* the row-derived metadata of row i overlaid with the single mapping, or
\* with entry i of the list; with no extra metadata it is the row-derived
\* metadata itself.
C5_ExtraOverlaysRowMetadata ==
    (IsProjection /\ ReturnedOk) =>
        \A i \in 1..Len(result.documents) :
            result.documents[i].meta = Overlaid(RowDerived(i), ExtraFor(i))

ExtraMisfits == args.meta.kind = "list" /\ Len(args.meta.l) /= InputRowCount
ReadErrors == {NothingToConcat, ColumnNotFound, DuplicateError, SchemaMismatch}

\* C6 as stated: a list of extra metadata whose length differs from the row
\* count of the table makes the projection raise the metadata-length error.
C6_MismatchAlwaysRaisesLengthError ==
    (IsProjection /\ ExtraMisfits /\ result.error \notin ReadErrors)
        => result = Raised(MetadataLengthMismatch)

\* C6 amended: such a list never yields Documents; the error is the
\* metadata-length error, except that PandasDataFrameConverter with
\* use_index_as_id on a composite index raises the incompatible-index error
\* first (and a file read that fails raises before a table exists).
C6_MismatchNeverReturns ==
    (IsProjection /\ ExtraMisfits) =>
        /\ result.status = "error"
        /\ result.documents = << >>
        /\ IF op = "PandasDataFrameConverter.run" /\ self.use_index_as_id
                /\ args.dataframe.index.kind = "multi"
           THEN result.error = IncompatibleIndex
           ELSE \/ result.error = MetadataLengthMismatch
                \/ op = "DataFrameFileToDocument.run" /\ result.error \in ReadErrors

C6_Witness ==
    /\ op \in {"frame_to_documents", "PolarsDataFrameConverter.run"}
    /\ Len(args.dataframe.rows) = 0
    /\ args.meta.kind = "list"
    /\ Len(args.meta.l) > 0
    /\ result = Raised(MetadataLengthMismatch)

\* C7: Id from index_column.  With index_column configured the id of
\* Document i is the string form of row i's value in that column; without
\* it the id handed to the Document is None.
C7_IdFromIndexColumn ==
    /\ (op \in {"frame_to_documents", "PolarsDataFrameConverter.run", "DataFrameFileToDocument.run"}
          /\ ReturnedOk) =>
          \A i \in 1..Len(result.documents) :
              IF IdConfigured
              THEN /\ result.documents[i].id.ty = "str"
                   /\ result.documents[i].id.repr = InputRow(i)[Config.index_column].repr
              ELSE result.documents[i].id = VNone
    /\ (op = "PandasDataFrameConverter.run" /\ ~self.use_index_as_id /\ ReturnedOk) =>
          \A i \in 1..Len(result.documents) : result.documents[i].id = VNone

C7_Witness ==
    /\ op \in {"frame_to_documents", "PolarsDataFrameConverter.run", "DataFrameFileToDocument.run"}
    /\ ReturnedOk
    /\ IdConfigured
    /\ Len(result.documents) > 0
    /\ InputRow(1)[Config.index_column] = VInt("5")
    /\ result.documents[1].id = VStr("5")

\* C8: Id from the row index.  PandasDataFrameConverter with use_index_as_id
\* on a non-composite index gives Document i the string form of the i-th
\* index label as id, whatever the columns are named, and the content and
\* metadata it gives without use_index_as_id.
C8_IdFromRowIndex ==
    (op = "PandasDataFrameConverter.run" /\ self.use_index_as_id /\ args.dataframe.index.kind /= "multi") =>
        LET plain == PandasDataFrameConverter_run([self EXCEPT !.use_index_as_id = FALSE],
                                                  args.dataframe, args.meta)
        IN  /\ result.status = plain.status
            /\ ReturnedOk =>
                  \A i \in 1..Len(result.documents) :
                      /\ result.documents[i].id.ty = "str"
                      /\ result.documents[i].id.repr = args.dataframe.index.labels[i].repr
                      /\ result.documents[i].content = plain.documents[i].content
                      /\ result.documents[i].meta = plain.documents[i].meta

\* C9: IncompatibleIndex.  PandasDataFrameConverter.run on a composite index
\* raises the incompatible-index error when use_index_as_id is set, before
\* the extra metadata is looked at; without use_index_as_id the same table is
\* converted.
C9_IncompatibleIndex ==
    (op = "PandasDataFrameConverter.run" /\ args.dataframe.index.kind = "multi") =>
        IF self.use_index_as_id
        THEN result = Raised(IncompatibleIndex)
        ELSE /\ result.error /= IncompatibleIndex
             /\ (InputHasColumns(ConfiguredColumns) /\ ExtraFits) =>
                   (ReturnedOk /\ Len(result.documents) = InputRowCount)

C9_Witness ==
    /\ op = "PandasDataFrameConverter.run"
    /\ args.dataframe.index.kind = "multi"
    /\ self.use_index_as_id
    /\ ExtraMisfits
    /\ result = Raised(IncompatibleIndex)

\* C10: UnsupportedBackend.  Constructing DataFrameFileToDocument with a
\* backend other than pandas or polars fails with 'Unsupported backend:
\* <value>' whatever the file format, so no instance has an unknown backend.
C10_UnsupportedBackend ==
    /\ (op = "DataFrameFileToDocument.__init__" /\ args.backend \notin {"pandas", "polars"}) =>
          /\ result = Raised("ValueError: Unsupported backend: " \o args.backend)
          /\ ~self.constructed
    /\ self.cls = "DataFrameFileToDocument" => self.backend \in {"pandas", "polars"}

C10_Witness ==
    /\ op = "DataFrameFileToDocument.__init__"
    /\ args.backend = "foo"
    /\ args.file_format = "foo"
    /\ result = Raised("ValueError: Unsupported backend: foo")

\* the formats a backend has a reader for
RegisteredFormats(backend) == IF backend = "pandas" THEN PandasFormats ELSE PolarsFormats
OtherBackend(backend) == IF backend = "pandas" THEN "polars" ELSE "pandas"

\* C11: UnsupportedFormat is eager.  Constructing DataFrameFileToDocument
\* with backend pandas or polars and a file_format that has no reader for
\* that backend raises ValueError 'Unsupported file format for <backend>
\* backend: <format>' at construction, and no instance is left to run.
C11_UnsupportedFormatEager ==
    (/\ op = "DataFrameFileToDocument.__init__"
     /\ args.backend \in {"pandas", "polars"}
     /\ args.file_format \notin RegisteredFormats(args.backend))
        => /\ result = Raised("ValueError: Unsupported file format for " \o args.backend
                                 \o " backend: " \o args.file_format)
           /\ ~self.constructed

\* C12: Both backends are usable in the combined stage.  Constructing
\* DataFrameFileToDocument with a registered file format succeeds under
\* pandas as under polars, and a run returns what the same run returns on an
\* instance of the other backend with the same configuration.
C12_BothBackendsUsable ==
    /\ (/\ op = "DataFrameFileToDocument.__init__"
        /\ args.backend \in {"pandas", "polars"}
        /\ args.file_format \in RegisteredFormats(args.backend))
          => (self.constructed /\ result = NoResult)
    /\ (op = "DataFrameFileToDocument.run" /\ self.file_format \in RegisteredFormats(OtherBackend(self.backend)))
          => LET other == DataFrameFileToDocument_init(self.content_column, self.meta_columns,
                                                       self.index_column, self.file_format,
                                                       OtherBackend(self.backend))
             IN  /\ other.ok
                 /\ DataFrameFileToDocument_run(other.self, args.file_paths, args.meta) = result

\* C13: Restricted read in the combined stage.  DataFrameFileToDocument.run
\* restricts the table it reads to exactly the configured column names
\* (index_column only when one is configured); with no index_column a run
\* over files that have the configured columns succeeds with unset ids.
C13_RestrictedRead ==
    (op = "DataFrameFileToDocument.run") =>
        LET read == _run_read(self, args.file_paths)
        IN  /\ read.ok => SeqRange(read.df.columns) = ConfiguredColumns
            /\ (~IdConfigured /\ InputHasColumns(ConfiguredColumns) /\ ExtraFits)
                  => /\ ReturnedOk
                     /\ \A i \in 1..Len(result.documents) : result.documents[i].id = VNone

\* some configured column is absent from the table given at run time
InputLacksColumn ==
    IF op \in FileOps
    THEN \E f \in 1..Len(args.file_paths) :
            ~(ConfiguredColumns \subseteq SeqRange(Files[args.file_paths[f]].columns))
    ELSE ~(ConfiguredColumns \subseteq SeqRange(args.dataframe.columns))
ColumnErrors == {KeyError, ColumnNotFound}

\* no column name is configured twice (as the id and the content, or twice
\* among the metadata columns); repeated names are the subject of C21 and C24
NamesDistinct ==
    /\ IsInjective(Config.meta_columns)
    /\ Config.content_column \notin SeqRange(Config.meta_columns)
    /\ IdConfigured => Config.index_column \notin ({Config.content_column} \cup SeqRange(Config.meta_columns))

\* C14: ColumnNotFound.  A projection whose content_column, index_column or
\* meta_columns names a column the table does not have fails with the
\* column-not-found error and returns no Documents, also for a zero-row
\* table.  (Stated for configurations of distinct names and for calls that
\* pass the checks made before the columns are looked at: the extra metadata
\* fits and the index can be the id.)
C14_ColumnNotFound ==
    (IsProjection /\ InputLacksColumn /\ NamesDistinct /\ ExtraFits
        /\ ~(op = "PandasDataFrameConverter.run" /\ self.use_index_as_id /\ args.dataframe.index.kind = "multi"))
        => (result.status = "error" /\ result.error \in ColumnErrors)

\* C15: Zero-row table.  Projecting a table of zero rows that has the
\* configured columns returns an empty Document sequence without error when
\* the extra metadata is absent, a single mapping or an empty list.  (Stated
\* for the calls the design means to succeed.)
C15_ZeroRowTable ==
    (IsProjection /\ op \notin FileOps /\ Len(args.dataframe.rows) = 0
        /\ InputHasColumns(ConfiguredColumns) /\ ExtraFits /\ ~FailsByDesign)
        => result = Returned(<< >>)

\* the column subset a reader stage is configured with, << >> when it has none
SubsetOf(instance) == IF instance.columns_subset.some THEN instance.columns_subset.val ELSE << >>
EveryFileHas(cols) ==
    \A f \in 1..Len(args.file_paths) : SeqRange(cols) \subseteq SeqRange(Files[args.file_paths[f]].columns)

\* C16: Column-subset restriction in reader stages.  With a non-empty
\* columns_subset the table returned has exactly those columns in the given
\* order and row i holds the cells of input row i under them; the
\* restriction is made per file before the concatenation, so files that
\* differ only outside the subset are combined.  With columns_subset None or
\* empty every cell read from a file is kept.
C16_ColumnsSubset ==
    (op \in ReaderOps) =>
        LET subset == SubsetOf(self)
            df == result.dataframe
        IN  /\ (Len(subset) > 0 /\ Len(args.file_paths) > 0 /\ EveryFileHas(subset)) => ReturnedOk
            /\ ReturnedOk =>
                  /\ Len(df.rows) = InputRowCount
                  /\ Len(subset) > 0 =>
                        /\ df.columns = subset
                        /\ \A i \in 1..Len(df.rows) :
                              /\ DOMAIN df.rows[i] = SeqRange(subset)
                              /\ \A c \in SeqRange(subset) : df.rows[i][c] = InputRow(i)[c]
                  /\ Len(subset) = 0 =>
                        /\ \A c \in SeqRange(Files[args.file_paths[1]].columns) : c \in SeqRange(df.columns)
                        /\ \A i \in 1..Len(df.rows) :
                              \A c \in DOMAIN InputRow(i) : df.rows[i][c] = InputRow(i)[c]

C16_Witness ==
    /\ op = "FileToPolarsConverter.run"
    /\ self.columns_subset = SomeList(<<"meta1", "content">>)
    /\ args.file_paths = <<"a.csv", "b.csv">>
    /\ ReturnedOk
    /\ result.dataframe.columns = <<"meta1", "content">>
    /\ Len(result.dataframe.rows) = 4

\* the formats the docstrings of the reader stages list
DocumentedPandasFormats ==
    {"csv", "fwf", "json", "html", "xml", "excel", "feather", "parquet", "orc", "pickle"}
DocumentedPolarsFormats == {"avro", "csv", "delta", "excel", "ipc", "json", "parquet"}

\* C17: Documented format sets of the reader stages.  Constructing
\* FileToPandasDataFrame succeeds exactly for the ten documented formats and
\* constructing the polars reader stage exactly for the seven documented
\* formats; every other value raises ValueError 'Unsupported file format'.
C17_DocumentedFormats ==
    /\ (op = "FileToPandasDataFrame.__init__") =>
          IF args.file_format \in DocumentedPandasFormats
          THEN self.constructed /\ result = NoResult
          ELSE ~self.constructed
               /\ result = Raised("ValueError: Unsupported file format: " \o args.file_format)
    /\ (op = "FileToPolarsConverter.__init__") =>
          IF args.file_format \in DocumentedPolarsFormats
          THEN self.constructed /\ result = NoResult
          ELSE ~self.constructed
               /\ result = Raised("ValueError: Unsupported file format: " \o args.file_format)

StageRunOps == (ProjectionOps \ {"frame_to_documents"}) \cup ReaderOps

\* an instance constructed anew from the arguments the constructor was given
FreshInstance ==
    CASE self.cls = "PandasDataFrameConverter" ->
            PandasDataFrameConverter_init(args.content_column, args.meta_columns, args.use_index_as_id)
      [] self.cls = "PolarsDataFrameConverter" ->
            PolarsDataFrameConverter_init(args.content_column, args.meta_columns, args.index_column)
      [] self.cls = "DataFrameFileToDocument" ->
            DataFrameFileToDocument_init(args.content_column, args.meta_columns, args.index_column,
                                         args.file_format, args.backend).self
      [] self.cls = "FileToPandasDataFrame" ->
            FileToPandasDataFrame_init(args.file_format, args.columns_subset).self
      [] self.cls = "FileToPolarsConverter" ->
            FileToPolarsConverter_init(args.file_format, args.columns_subset).self
      [] OTHER -> NoInstance

\* what the first run of that instance returns for the arguments of the last run
FreshResult ==
    CASE op = "PandasDataFrameConverter.run" ->
            PandasDataFrameConverter_run(FreshInstance, args.dataframe, args.meta)
      [] op = "PolarsDataFrameConverter.run" ->
            PolarsDataFrameConverter_run(FreshInstance, args.dataframe, args.meta)
      [] op = "DataFrameFileToDocument.run" ->
            DataFrameFileToDocument_run(FreshInstance, args.file_paths, args.meta)
      [] op = "FileToPandasDataFrame.run" -> FileToPandasDataFrame_run(FreshInstance, args.file_paths)
      [] op = "FileToPolarsConverter.run" -> FileToPolarsConverter_run(FreshInstance, args.file_paths)
      [] OTHER -> NoResult

C19_LengthAgainstWholeTable ==
    (op = "DataFrameFileToDocument.run" /\ args.meta.kind = "list" /\ Len(args.file_paths) > 1) =>
        LET fits == Len(args.meta.l) = TotalRows(args.file_paths)
        IN  /\ ReturnedOk => (fits /\ Len(result.documents) = TotalRows(args.file_paths))
            /\ result.error = MetadataLengthMismatch => ~fits
            /\ (~fits /\ _run_read(self, args.file_paths).ok) => result = Raised(MetadataLengthMismatch)
            /\ InputLacksColumn => (result.status = "error" /\ result.error /= MetadataLengthMismatch)

C19_Witness ==
    /\ op = "DataFrameFileToDocument.run"
    /\ args.file_paths = <<"a.csv", "c.csv">>
    /\ args.meta.kind = "list"
    /\ Len(args.meta.l) = 3
    /\ ReturnedOk
    /\ Len(result.documents) = 3

Reverse(q) == [i \in 1..Len(q) |-> q[Len(q) + 1 - i]]

\* the outcome of the last projection had meta_columns been mc
ProjectionWithMetaColumns(mc) ==
    CASE op = "frame_to_documents" ->
            frame_to_documents(args.dataframe, args.content_column, mc, args.index_column, args.meta)
      [] op = "PandasDataFrameConverter.run" ->
            PandasDataFrameConverter_run([self EXCEPT !.meta_columns = mc], args.dataframe, args.meta)
      [] op = "PolarsDataFrameConverter.run" ->
            PolarsDataFrameConverter_run([self EXCEPT !.meta_columns = mc], args.dataframe, args.meta)
      [] op = "DataFrameFileToDocument.run" ->
            DataFrameFileToDocument_run([self EXCEPT !.meta_columns = mc], args.file_paths, args.meta)
      [] OTHER -> NoResult

\* C20: Metadata key set.  The metadata keys of Document i are the
\* meta_columns that are columns of the table, without content_column and
\* index_column, together with the keys of the extra metadata of row i; a
\* column outside meta_columns is a key only when the extra metadata has it;
\* the order of meta_columns does not change the outcome.
C20_MetadataKeySet ==
    (IsProjection /\ ReturnedOk) =>
        /\ \A i \in 1..Len(result.documents) :
              DOMAIN result.documents[i].meta =
                  (((SeqRange(Config.meta_columns) \cap DOMAIN InputRow(i)) \ {Config.content_column})
                      \ (IF IdConfigured THEN {Config.index_column} ELSE {}))
                  \cup DOMAIN ExtraFor(i)
        /\ ProjectionWithMetaColumns(Reverse(Config.meta_columns)) = result

\* the list without the later occurrences of a repeated entry
Dedup(q) == SelectSeq([i \in 1..Len(q) |-> [n |-> q[i], first |-> \A j \in 1..(i - 1) : q[j] /= q[i]]],
                      LAMBDA e : e.first)
DedupNames(q) == [i \in 1..Len(Dedup(q)) |-> Dedup(q)[i].n]

\* C21: Duplicate meta_columns are idempotent.  A projection whose
\* meta_columns repeats an entry has the outcome of the same projection with
\* the repeated entries removed, in frame_to_documents and in the pandas,
\* polars and file-based stages.
C21_DuplicatesIdempotent ==
    (IsProjection /\ ~IsInjective(Config.meta_columns))
        => result = ProjectionWithMetaColumns(DedupNames(Config.meta_columns))

\* the dict objects the caller passed as extra metadata
CallerObjects ==
    CASE args.meta.kind = "dict" -> {CallerObject(0)}
      [] args.meta.kind = "list" -> {CallerObject(i) : i \in 1..Len(args.meta.l)}
      [] OTHER -> {}

C23_ImplementationsAgree ==
    /\ (op = "PolarsDataFrameConverter.run" /\ InputHasColumns(ConfiguredColumns) /\ NamesDistinct)
          => result = frame_to_documents(args.dataframe, self.content_column, self.meta_columns,
                                         self.index_column, args.meta)
    /\ (op = "DataFrameFileToDocument.run" /\ InputHasColumns(ConfiguredColumns) /\ NamesDistinct)
          => LET read == _run_read(self, args.file_paths)
             IN  read.ok => result = frame_to_documents(read.df, self.content_column, self.meta_columns,
                                                        self.index_column, args.meta)

\* C24: The id column is consumed.  In frame_to_documents an index_column
\* that is also listed in meta_columns gives every Document its id and is
\* not a row-derived metadata key (it is a key only when the extra metadata
\* of the row has it, with the extra value); with index_column equal to
\* content_column a table of at least one row returns no Documents.
C24_IdColumnConsumed ==
    (op = "frame_to_documents" /\ IdConfigured) =>
        /\ (ReturnedOk /\ args.index_column \in SeqRange(args.meta_columns)) =>
              \A i \in 1..Len(result.documents) :
                  /\ result.documents[i].id = PyStr(InputRow(i)[args.index_column])
                  /\ args.index_column \in DOMAIN result.documents[i].meta =>
                        /\ args.index_column \in DOMAIN ExtraFor(i)
                        /\ result.documents[i].meta[args.index_column] = ExtraFor(i)[args.index_column]
        /\ (args.index_column = args.content_column /\ Len(args.dataframe.rows) > 0) =>
              result.status = "error"

C24_Witness ==
    /\ op = "frame_to_documents"
    /\ args.index_column = "index"
    /\ args.meta_columns = <<"index", "meta1">>
    /\ args.meta = MetaNone
    /\ ReturnedOk
    /\ Len(result.documents) = MaxRows
    /\ DOMAIN result.documents[1].meta = {"meta1"}
    /\ result.documents[1].id = VStr("5")

C24_WitnessSameColumn ==
    /\ op = "frame_to_documents"
    /\ args.index_column = "content"
    /\ args.content_column = "content"
    /\ Len(args.dataframe.rows) > 0
    /\ args.meta = MetaNone
    /\ result = Raised(KeyError)

\* the converter's run took the table FileToPandasDataFrame.run returned
\* for args.file_paths
ChainedRun == op = "PandasDataFrameConverter.run" /\ args.file_paths /= << >>

\* C25: Chaining the pandas stages gives unique ids.  The table
\* FileToPandasDataFrame.run returns for a non-empty file list has the row
\* index 0..N-1, N the total number of rows read, so a PandasDataFrameConverter
\* with use_index_as_id run on it returns N Documents whose ids are "0", "1",
\* ..., "N-1" in order (hence without duplicates) whenever its configured
\* columns exist and the extra metadata fits.
C25_ChainedIdsUnique ==
    (ChainedRun /\ self.use_index_as_id) =>
        LET N == TotalRows(args.file_paths)
        IN  /\ args.dataframe.index = [kind |-> "range", labels |-> RangeLabels(N)]
            /\ (InputHasColumns(ConfiguredColumns) /\ ExtraFits) => ReturnedOk
            /\ ReturnedOk =>
                  /\ Len(result.documents) = N
                  /\ \A i \in 1..N : result.documents[i].id = VStr(IntRepr(i - 1))

====
